---- MODULE Spec2Model ----
(***************************************************************************)
(* Model of the OIDC callback relay of src/main.py: the startup discovery  *)
(* step, the /, /health and /login routes, and the /oauth/oidc/callback    *)
(* handler with its two suspension points (the token POST and the signing  *)
(* key resolution).                                                        *)
(*                                                                         *)
(* Strings are sequences of elements.  An element is either one character *)
(* ("x", "&", "%", ...) or an atom standing for a run of URL-safe          *)
(* characters ("client_id", "AUTH_EP", ...), which URL quoting leaves      *)
(* alone.  The environment is taken with CLIENT_ID and CLIENT_SECRET set.  *)
(***************************************************************************)
EXTENDS Integers, Sequences, FiniteSets, TLC

\* ------------------------------------------------------------------ bounds

\* Longest caller-supplied `state` value drawn for a request.
MaxLen == 2

\* ------------------------------------------------------------ configuration

\* Python's None, as a value of the string sort.
NoneV == <<"<None>">>

CLIENT_ID == <<"cid">>
CLIENT_SECRET == <<"secret">>
\* "http://localhost:8000" with its ':' and '/' kept as characters.
APP_BASE_URL == <<"http", ":", "/", "/", "localhost", ":", "8000">>
VSCODE_EXTENSION_ID == <<"saoudrizwan.claude-dev">>

\* redirect_uri = f"{APP_BASE_URL}/oauth/oidc/callback"
RedirectUri == APP_BASE_URL \o <<"/", "oauth", "/", "oidc", "/", "callback">>

\* Characters a caller may put in `state`: a plain one and the ones that
\* matter to a query string.
Chars == {"x", "&", "=", "%", "+", " ", "#"}

RECURSIVE StringsOfLen(_)
StringsOfLen(n) ==
    IF n = 0 THEN {<<>>}
    ELSE {Append(s, c) : s \in StringsOfLen(n - 1), c \in Chars}

\* Every string of at most MaxLen characters.
Strings == UNION {StringsOfLen(n) : n \in 0..MaxLen}

\* --------------------------------------------------- urllib.parse (encode)

\* The characters quote_plus escapes, with the two hex digits of each.
Escapes ==
    [c \in {"&", "=", "%", "+", "#", ":", "/"} |->
        CASE c = "&" -> <<"2", "6">>
          [] c = "=" -> <<"3", "D">>
          [] c = "%" -> <<"2", "5">>
          [] c = "+" -> <<"2", "B">>
          [] c = "#" -> <<"2", "3">>
          [] c = ":" -> <<"3", "A">>
          [] c = "/" -> <<"2", "F">>]

\* quote_plus on one character: ' ' becomes '+', an unsafe character its
\* percent escape, anything else stays.
QuoteChar(c) ==
    IF c = " " THEN <<"+">>
    ELSE IF c \in DOMAIN Escapes THEN <<"%">> \o Escapes[c]
    ELSE <<c>>

RECURSIVE QuotePlus(_)
QuotePlus(s) ==
    IF s = <<>> THEN <<>> ELSE QuoteChar(Head(s)) \o QuotePlus(Tail(s))

\* urllib.parse.urlencode of a mapping given as a sequence of <<key, value>>
\* pairs in insertion order: quote_plus(k)=quote_plus(v) joined by '&'.
RECURSIVE urlencode(_)
urlencode(pairs) ==
    IF pairs = <<>> THEN <<>>
    ELSE LET p == Head(pairs)
             kv == QuotePlus(p[1]) \o <<"=">> \o QuotePlus(p[2])
         IN  IF Len(pairs) = 1 THEN kv
             ELSE kv \o <<"&">> \o urlencode(Tail(pairs))

\* --------------------------------------------------- urllib.parse (decode)
\* The receiving side of a URL: what a standard query parser makes of it.

\* The character a hex pair stands for, or NoneV's element when the pair is
\* no escape of the alphabet.
Unhex(a, b) ==
    LET hit == {c \in DOMAIN Escapes : Escapes[c] = <<a, b>>}
    IN  IF hit = {} THEN "<None>" ELSE CHOOSE c \in hit : TRUE

RECURSIVE Unquote(_)
Unquote(s) ==
    IF s = <<>> THEN <<>>
    ELSE IF Head(s) = "%" /\ Len(s) >= 3 /\ Unhex(s[2], s[3]) # "<None>"
         THEN <<Unhex(s[2], s[3])>> \o Unquote(SubSeq(s, 4, Len(s)))
         ELSE <<Head(s)>> \o Unquote(Tail(s))

PlusToSpace(s) == [i \in 1..Len(s) |-> IF s[i] = "+" THEN " " ELSE s[i]]

UnquotePlus(s) == Unquote(PlusToSpace(s))

\* Index of the first occurrence of c in s, or 0.
IndexOf(s, c) ==
    IF \E i \in 1..Len(s) : s[i] = c
    THEN CHOOSE i \in 1..Len(s) : s[i] = c /\ \A j \in 1..(i - 1) : s[j] # c
    ELSE 0

\* s.split(c): the pieces of s between occurrences of c.
RECURSIVE Split(_, _)
Split(s, c) ==
    LET i == IndexOf(s, c)
    IN  IF i = 0 THEN <<s>>
        ELSE <<SubSeq(s, 1, i - 1)>> \o Split(SubSeq(s, i + 1, Len(s)), c)

\* One name=value piece, split at its first '=' and unquoted.
ParsePair(nv) ==
    LET i == IndexOf(nv, "=")
    IN  IF i = 0 THEN <<UnquotePlus(nv), <<>>>>
        ELSE <<UnquotePlus(SubSeq(nv, 1, i - 1)),
               UnquotePlus(SubSeq(nv, i + 1, Len(nv)))>>

RECURSIVE ParsePieces(_)
ParsePieces(ps) ==
    IF ps = <<>> THEN <<>>
    ELSE IF Head(ps) = <<>> THEN ParsePieces(Tail(ps))
         ELSE <<ParsePair(Head(ps))>> \o ParsePieces(Tail(ps))

\* parse_qsl(query, keep_blank_values=True): the <<name, value>> pairs.
ParseQsl(q) == ParsePieces(Split(q, "&"))

\* urlsplit: the fragment is cut at the first '#', then the query is what
\* follows the first '?'.
UrlNoFragment(u) ==
    LET h == IndexOf(u, "#") IN IF h = 0 THEN u ELSE SubSeq(u, 1, h - 1)

UrlQuery(u) ==
    LET v == UrlNoFragment(u)
        q == IndexOf(v, "?")
    IN  IF q = 0 THEN <<>> ELSE SubSeq(v, q + 1, Len(v))

UrlBase(u) ==
    LET v == UrlNoFragment(u)
        q == IndexOf(v, "?")
    IN  IF q = 0 THEN v ELSE SubSeq(v, 1, q - 1)

\* The values a parsed query gives for a name, in order.
RECURSIVE ValuesOf(_, _)
ValuesOf(pairs, k) ==
    IF pairs = <<>> THEN <<>>
    ELSE (IF Head(pairs)[1] = k THEN <<Head(pairs)[2]>> ELSE <<>>)
         \o ValuesOf(Tail(pairs), k)

\* ------------------------------------------------------------------- state

VARIABLES
    phase,        \* "boot", "serving" (startup returned) or "crashed"
    oidc_config,  \* the global dict of line 43: field name -> value
    jwks_client,  \* the global of line 44: "None" or "client"
    discovery,    \* what the discovery request of this run produced
    startupExc,   \* the exception that left startup_event, "none" if none
    pc,           \* position of the request in flight
    req,          \* the request in flight
    resp,         \* its response
    calls,        \* the outbound calls made for it, in order
    token_json,   \* the token endpoint's parsed body, once there is one
    idjwt,        \* what the identity token of that body holds
    raised        \* the exception raised in the handler's try block, and where

vars == <<phase, oidc_config, jwks_client, discovery, startupExc,
          pc, req, resp, calls, token_json, idjwt, raised>>

shared == <<phase, oidc_config, jwks_client, discovery, startupExc>>

\* A dict with no entries: `not d` is true of it.
EmptyDict == [k \in {} |-> <<>>]

Falsy(d) == DOMAIN d = {}

\* ------------------------------------------------------------- environment

DocFields == {"authorization_endpoint", "token_endpoint", "issuer", "jwks_uri"}

DocValue ==
    [k \in DocFields |->
        CASE k = "authorization_endpoint" -> <<"AUTH_EP">>
          [] k = "token_endpoint" -> <<"TOKEN_EP">>
          [] k = "issuer" -> <<"ISS">>
          [] k = "jwks_uri" -> <<"JWKS">>]

\* The discovery document that holds exactly the fields of S.
Doc(S) == [k \in S |-> DocValue[k]]

\* What `await client.get(discovery_url)`, raise_for_status() and
\* response.json() can produce: an exception of one of three classes, or
\* a JSON object with some of the four fields.
DiscoveryOutcomes ==
    {[kind |-> "exc", exc |-> e, doc |-> EmptyDict] :
        e \in {"RequestError", "HTTPStatusError", "ValueError"}}
    \cup {[kind |-> "doc", exc |-> "none", doc |-> Doc(S)] : S \in SUBSET DocFields}

\* jwt is jose.jwt (line 9); PyJWKClient is looked up on it at line 72.
\* Whether the installed module has that attribute is not decided by this
\* repository: the lookup yields a client or raises AttributeError.
CtorOutcomes == {"client", "AttributeError"}

NoResp == [kind |-> "none", status |-> 0, detail |-> "", url |-> <<>>]
NoReq == [route |-> "none", code |-> NoneV, state |-> NoneV, error |-> NoneV]
NoJwt == [alg |-> "none", sig |-> FALSE, exp |-> "absent", aud |-> "absent", iss |-> NoneV]
NoRaise == [at |-> "none", exc |-> "none"]

\* An exception no handler caught: the framework answers 500.
Unhandled(exc) == [kind |-> "unhandled", status |-> 500, detail |-> exc, url |-> <<>>]

HTTPException(code, why) ==
    [kind |-> "http_exception", status |-> code, detail |-> why, url |-> <<>>]

\* ----------------------------------------------------------------- startup

\* except (httpx.RequestError, ValueError, KeyError), line 74.
StartupCaught == {"RequestError", "ValueError", "KeyError"}

\* The exception raised inside the try block of startup_event, "none" if
\* the block runs to its end.
StartupRaised(d, ctor) ==
    IF d.kind = "exc" THEN d.exc
    ELSE IF "jwks_uri" \notin DOMAIN d.doc THEN "ValueError"
    ELSE IF ctor = "client" THEN "none"
    ELSE ctor

\* startup_event without the reset of line 77: the document stays in
\* oidc_config when the except clause catches.
StartupConfigKeep(d, ctor) ==
    IF d.kind = "doc" THEN d.doc ELSE EmptyDict

\* oidc_config when startup_event ends: the document once line 64 ran,
\* reset to {} by the except clause when it catches.
StartupConfig(d, ctor) ==
    IF StartupRaised(d, ctor) \in StartupCaught THEN EmptyDict
    ELSE IF d.kind = "doc" THEN d.doc
    ELSE EmptyDict

\* jwks_client when startup_event ends: set only if line 72 returned.
StartupJwks(d, ctor) ==
    IF StartupRaised(d, ctor) = "none" THEN "client" ELSE "None"

\* The exception that leaves startup_event.
StartupEscapes(d, ctor) ==
    IF StartupRaised(d, ctor) \in StartupCaught THEN "none"
    ELSE StartupRaised(d, ctor)

\* startup_event, lines 46-77.  An exception that escapes it ends the
\* process before any route is served.
startup_event ==
    /\ phase = "boot"
    /\ \E d \in DiscoveryOutcomes, ctor \in CtorOutcomes :
        /\ discovery' = d
        /\ oidc_config' = StartupConfig(d, ctor)
        /\ jwks_client' = StartupJwks(d, ctor)
        /\ startupExc' = StartupEscapes(d, ctor)
        /\ phase' = IF StartupEscapes(d, ctor) = "none" THEN "serving" ELSE "crashed"
    /\ UNCHANGED <<pc, req, resp, calls, token_json, idjwt, raised>>

\* ------------------------------------------------------------ / and /health

\* root, lines 81-88.
RootResp(cfg) ==
    [kind |-> "json", status |-> 200,
     detail |-> IF Falsy(cfg) THEN "oidc_config_loaded=false" ELSE "oidc_config_loaded=true",
     url |-> <<>>]

root ==
    /\ phase = "serving" /\ pc = "idle"
    /\ req' = [NoReq EXCEPT !.route = "/"]
    /\ resp' = RootResp(oidc_config)
    /\ pc' = "done"
    /\ UNCHANGED <<shared, calls, token_json, idjwt, raised>>

\* health_check, lines 215-218.
HealthResp == [kind |-> "json", status |-> 200, detail |-> "healthy", url |-> <<>>]

health_check ==
    /\ phase = "serving" /\ pc = "idle"
    /\ req' = [NoReq EXCEPT !.route = "/health"]
    /\ resp' = HealthResp
    /\ pc' = "done"
    /\ UNCHANGED <<shared, calls, token_json, idjwt, raised>>

\* ------------------------------------------------------------------ /login

\* The params dict of lines 104-110, in insertion order.
LoginParams(state) ==
    << <<<<"client_id">>, CLIENT_ID>>,
       <<<<"response_type">>, <<"code">>>>,
       <<<<"scope">>, <<"openid", " ", "email", " ", "profile">>>>,
       <<<<"redirect_uri">>, RedirectUri>>,
       <<<<"state">>, state>> >>

\* full_auth_url, lines 112-113.
LoginUrl(cfg, state) ==
    cfg["authorization_endpoint"] \o <<"?">> \o urlencode(LoginParams(state))

\* login with its two checks in the other order: `state` before the
\* configuration.
LoginRespStateFirst(cfg, state) ==
    IF state = NoneV \/ state = <<>>
    THEN HTTPException(400, "The 'state' parameter is required.")
    ELSE IF Falsy(cfg) THEN HTTPException(503, "OIDC provider not configured.")
    ELSE IF "authorization_endpoint" \notin DOMAIN cfg THEN Unhandled("KeyError")
    ELSE [kind |-> "redirect", status |-> 307, detail |-> "", url |-> LoginUrl(cfg, state)]

\* login, lines 90-116: state is Optional[str], None when the query has
\* none.  RedirectResponse answers 307.
LoginResp(cfg, state) ==
    IF Falsy(cfg) THEN HTTPException(503, "OIDC provider not configured.")
    ELSE IF state = NoneV \/ state = <<>>
    THEN HTTPException(400, "The 'state' parameter is required.")
    ELSE IF "authorization_endpoint" \notin DOMAIN cfg THEN Unhandled("KeyError")
    ELSE [kind |-> "redirect", status |-> 307, detail |-> "", url |-> LoginUrl(cfg, state)]

login ==
    /\ phase = "serving" /\ pc = "idle"
    /\ \E s \in Strings \cup {NoneV} :
        /\ req' = [NoReq EXCEPT !.route = "/login", !.state = s]
        /\ resp' = LoginResp(oidc_config, s)
    /\ pc' = "done"
    /\ UNCHANGED <<shared, calls, token_json, idjwt, raised>>

\* ------------------------------------------------------ /oauth/oidc/callback

\* The identity token as the token endpoint sends it: base64url segments
\* and dots, all URL-safe.
JwtString == <<"eyJ.payload.sig">>

\* Bodies the token endpoint may answer with, as the <<name, value>> pairs
\* of the parsed JSON object in order: no identity token, an empty one, one
\* alone, and one beside a field that needs escaping or is named `state`.
TokenBodies ==
    { <<>>,
      << <<<<"access_token">>, <<"t">>>> >>,
      << <<<<"id_token">>, <<>>>> >>,
      << <<<<"id_token">>, JwtString>> >>,
      << <<<<"id_token">>, JwtString>>, <<<<"access_token">>, <<"t", "&", "=">>>> >>,
      << <<<<"id_token">>, JwtString>>, <<<<"state">>, <<"ts">>>> >> }

\* What `await client.post(...)`, raise_for_status() and json() can
\* produce: httpx.RequestError (transport), httpx.HTTPStatusError (non-2xx),
\* ValueError (json.JSONDecodeError is one), or a parsed body.
PostOutcomes ==
    {[kind |-> "exc", exc |-> e, body |-> <<>>] :
        e \in {"RequestError", "HTTPStatusError", "ValueError"}}
    \cup {[kind |-> "body", exc |-> "none", body |-> b] : b \in TokenBodies}

\* What the identity token holds: the header's alg, whether its signature
\* verifies under the resolved key, and the exp, aud and iss claims.
Jwts ==
    [alg : {"RS256", "HS256"}, sig : BOOLEAN, exp : {"future", "past", "absent"},
     aud : {"client", "other", "absent"}, iss : {<<"ISS">>, <<"EVIL">>}]

\* What `await jwks_client.get_signing_key_from_jwt(id_token)` can produce:
\* a key, or an exception.  The resolver's class is not jose's, so the
\* exception may be a jose JWTError, a transport error or neither.
KeyOutcomes == {"key", "JWTError", "RequestError", "TypeError"}

\* dict.get: the first value under a name, NoneV if there is none.
Get(pairs, k) ==
    IF ValuesOf(pairs, k) = <<>> THEN NoneV ELSE Head(ValuesOf(pairs, k))

\* _create_error_response, lines 200-213: always status 400.
ErrorPage(title) == [kind |-> "error_page", status |-> 400, detail |-> title, url |-> <<>>]

\* _create_success_response, lines 174-198.
SuccessPage(uri) == [kind |-> "success_page", status |-> 200, detail |-> "", url |-> uri]

\* except (httpx.RequestError, JWTError, ValueError), line 161.
CallbackCaught == {"RequestError", "JWTError", "ValueError"}

\* The except clause with a title of its own per exception class.
OnExceptionPerClass(exc) ==
    IF exc \in CallbackCaught THEN ErrorPage(exc)
    ELSE Unhandled(exc)

\* An exception raised inside the try block of oauth_callback: the except
\* clause of lines 161-166 answers with the one error page, anything it
\* does not name leaves the handler.
OnException(exc) ==
    IF exc \in CallbackCaught THEN ErrorPage("Token Exchange Failed")
    ELSE Unhandled(exc)

\* jose.jwt.decode(id_token, key, algorithms, audience, issuer) with its
\* default options: the header's alg must be one of `algorithms`, the
\* signature must verify, exp is checked when present, aud is checked
\* against `audience` when present, iss is checked when `issuer` is not
\* None.  True when decode returns, false when it raises a JWTError.
Validates(j, algorithms, audience, issuer) ==
    /\ j.alg \in algorithms
    /\ j.sig
    /\ j.exp # "past"
    /\ (j.aud # "absent" => (j.aud = "client" /\ audience = CLIENT_ID))
    /\ (issuer # NoneV => j.iss = issuer)

\* oidc_config.get("issuer"), line 157.
IssuerOf(cfg) == IF "issuer" \in DOMAIN cfg THEN cfg["issuer"] ELSE NoneV

\* vscode_uri, line 169: the token response urlencoded, then state as it
\* came.
VscodeUri(tj, state) ==
    <<"vscode", ":", "/", "/">> \o VSCODE_EXTENSION_ID \o <<"/", "auth", "?">>
        \o urlencode(tj) \o <<"&", "state", "=">> \o state

\* Values a request may carry for `code`, `state` and `error`; NoneV is a
\* parameter the query string does not have.
CodeValues == {NoneV, <<>>, <<"c">>}
ErrorValues == {NoneV, <<"access_denied">>}

\* oauth_callback up to the POST, lines 118-141.  `code: str, state: str`
\* are required query parameters: the framework answers 422 without
\* calling the handler when one is missing, and passes an empty value on.
\* NoResp: the handler goes on to the token endpoint.
CallbackEntry(cfg, code, state) ==
    IF code = NoneV \/ state = NoneV
    THEN [kind |-> "validation_error", status |-> 422, detail |-> "field required", url |-> <<>>]
    ELSE IF Falsy(cfg) THEN HTTPException(503, "OIDC provider not configured.")
    ELSE IF "token_endpoint" \notin DOMAIN cfg THEN Unhandled("KeyError")
    ELSE NoResp

oauth_callback ==
    /\ phase = "serving" /\ pc = "idle"
    /\ \E c \in CodeValues, s \in Strings \cup {NoneV}, e \in ErrorValues :
        /\ req' = [route |-> "/callback", code |-> c, state |-> s, error |-> e]
        /\ resp' = CallbackEntry(oidc_config, c, s)
        /\ pc' = IF CallbackEntry(oidc_config, c, s) = NoResp THEN "await_post" ELSE "done"
        /\ calls' = IF CallbackEntry(oidc_config, c, s) = NoResp
                    THEN <<"token_post">> ELSE <<>>
    /\ UNCHANGED <<shared, token_json, idjwt, raised>>

\* The exception lines 142-151 raise, from the POST's return to the key
\* resolution, and the place: the transport ("post"), raise_for_status
\* ("status"), json() ("json"), the id_token check of line 147
\* ("id_token"), or the attribute lookup on a jwks_client that is None.
PostRaises(o, jwks) ==
    IF o.kind = "exc"
    THEN [at |-> CASE o.exc = "RequestError" -> "post"
                   [] o.exc = "HTTPStatusError" -> "status"
                   [] OTHER -> "json",
          exc |-> o.exc]
    ELSE IF Get(o.body, <<"id_token">>) \in {NoneV, <<>>}
    THEN [at |-> "id_token", exc |-> "ValueError"]
    ELSE IF jwks = "None" THEN [at |-> "jwks_client", exc |-> "AttributeError"]
    ELSE NoRaise

\* Lines 142-151 without the `raise` of line 147: a body with no identity
\* token does not stop the handler, which goes on to resolve the key.
AfterPostGoesOn(o, jwks) ==
    IF PostRaises(o, jwks).at \in {"none", "id_token"} THEN NoResp
    ELSE OnException(PostRaises(o, jwks).exc)

\* Lines 142-151: NoResp when the handler goes on to resolve the key.
AfterPost(o, jwks) ==
    IF PostRaises(o, jwks) = NoRaise THEN NoResp
    ELSE OnException(PostRaises(o, jwks).exc)

oauth_callback_post ==
    /\ pc = "await_post"
    /\ \E o \in PostOutcomes :
        /\ token_json' = o.body
        /\ raised' = PostRaises(o, jwks_client)
        /\ resp' = AfterPost(o, jwks_client)
        /\ pc' = IF AfterPost(o, jwks_client) = NoResp THEN "await_key" ELSE "done"
        /\ calls' = IF AfterPost(o, jwks_client) = NoResp
                    THEN Append(calls, "jwks_fetch") ELSE calls
    /\ UNCHANGED <<shared, req, idjwt>>

\* The exception lines 151-158 raise: the key resolution's own, or the
\* JWTError of a token that jwt.decode rejects.
KeyRaises(k, j, cfg) ==
    IF k # "key" THEN [at |-> "key", exc |-> k]
    ELSE IF ~Validates(j, {"RS256"}, CLIENT_ID, IssuerOf(cfg))
    THEN [at |-> "decode", exc |-> "JWTError"]
    ELSE NoRaise

\* Lines 151-172, from the key resolution's return to the response.
AfterKey(k, j, cfg, tj, state) ==
    IF KeyRaises(k, j, cfg) = NoRaise THEN SuccessPage(VscodeUri(tj, state))
    ELSE OnException(KeyRaises(k, j, cfg).exc)

oauth_callback_key ==
    /\ pc = "await_key"
    /\ \E k \in KeyOutcomes, j \in Jwts :
        /\ idjwt' = IF k = "key" THEN j ELSE NoJwt
        /\ raised' = KeyRaises(k, j, oidc_config)
        /\ resp' = AfterKey(k, j, oidc_config, token_json, req.state)
    /\ pc' = "done"
    /\ UNCHANGED <<shared, req, calls, token_json>>

\* The response is sent; the server waits for the next request.
respond ==
    /\ pc = "done"
    /\ pc' = "idle"
    /\ req' = NoReq
    /\ resp' = NoResp
    /\ calls' = <<>>
    /\ token_json' = <<>>
    /\ idjwt' = NoJwt
    /\ raised' = NoRaise
    /\ UNCHANGED shared

\* ----------------------------------------------------------- specification

Init ==
    /\ phase = "boot"
    /\ oidc_config = EmptyDict
    /\ jwks_client = "None"
    /\ discovery = [kind |-> "none", exc |-> "none", doc |-> EmptyDict]
    /\ startupExc = "none"
    /\ pc = "idle"
    /\ req = NoReq
    /\ resp = NoResp
    /\ calls = <<>>
    /\ token_json = <<>>
    /\ idjwt = NoJwt
    /\ raised = NoRaise

Next ==
    \/ startup_event
    \/ root
    \/ health_check
    \/ login
    \/ oauth_callback
    \/ oauth_callback_post
    \/ oauth_callback_key
    \/ respond

Spec == Init /\ [][Next]_vars

\* ------------------------------------------------------------------ claims

Range(q) == {q[i] : i \in 1..Len(q)}

Callback == req.route = "/callback"

\* The discovery document gave all four required fields.
CompleteMetadata == DocFields \subseteq DOMAIN oidc_config

\* The response is a classified failure returned by the handler.
Classified == resp.kind = "error_page"

\* C1: a callback that carries a provider error and no code ends with a
\* classified provider-denied failure of status 400, and no request to the
\* token endpoint is made for it.  Stated for complete metadata.
C1_ProviderDenied ==
    (CompleteMetadata /\ pc = "done" /\ Callback /\ req.error # NoneV /\ req.code = NoneV)
        => (Classified /\ resp.status = 400 /\ "token_post" \notin Range(calls))

\* C2: a callback without a provider error whose code or state is absent
\* or empty makes no outbound call and ends with a classified
\* missing-parameter failure of status 400.  Stated for complete metadata.
C2_MissingParameter ==
    (CompleteMetadata /\ Callback /\ req.error = NoneV
        /\ (req.code \in {NoneV, <<>>} \/ req.state \in {NoneV, <<>>}))
        => (calls = <<>> /\ (pc = "done" => (Classified /\ resp.status = 400)))

\* C3: whenever the callback answers with the success page, the token
\* response held an identity token, whose alg is RS256, whose signature
\* verifies, whose exp is in the future, whose aud is the client id and
\* whose iss is the issuer of the loaded metadata.  Stated for tokens
\* that carry an exp and an aud claim, and read in the claim's favour
\* where the loaded document names no issuer: the provider's own then.
C3_SuccessOnlyForValidToken ==
    (resp.kind = "success_page" /\ idjwt.exp # "absent" /\ idjwt.aud # "absent")
        => /\ Get(token_json, <<"id_token">>) \notin {NoneV, <<>>}
           /\ idjwt.alg = "RS256"
           /\ idjwt.sig
           /\ idjwt.exp = "future"
           /\ idjwt.aud = "client"
           /\ idjwt.iss = DocValue["issuer"]

\* C4: once the handler has accepted a callback and gone to the token
\* endpoint, the request ends with the success page or a classified
\* failure, never with an exception that leaves the handler.  Stated for
\* complete metadata.
C4_FailuresAreData ==
    (CompleteMetadata /\ pc = "done" /\ Callback /\ calls # <<>>)
        => resp.kind \in {"success_page", "error_page"}

\* C5: with oidc_config empty, every /login request and every callback
\* with code and state present ends at once with the 503 'not configured'
\* error: no redirect, no outbound call.
C5_NotConfiguredFailsFast ==
    (Falsy(oidc_config) /\ pc # "idle"
        /\ (req.route = "/login"
            \/ (Callback /\ req.code # NoneV /\ req.state # NoneV)))
        => /\ pc = "done"
           /\ resp = HTTPException(503, "OIDC provider not configured.")
           /\ calls = <<>>

\* A /login and a callback request, each answered 'not configured'.
C5_Witness ==
    /\ phase = "serving" /\ Falsy(oidc_config) /\ pc = "done"
    /\ Callback /\ req.code = <<"c">> /\ req.state \notin {NoneV, <<>>}
    /\ resp.status = 503

\* The discovery step failed: the request or the parse raised, or one of
\* the four required fields is missing from the document.
DiscoveryFailed ==
    discovery.kind = "exc"
        \/ (discovery.kind = "doc" /\ ~(DocFields \subseteq DOMAIN discovery.doc))

\* C6: after startup, a failed discovery leaves oidc_config empty, and a
\* populated oidc_config holds all four required fields.
C6_RequiredFields ==
    phase = "serving"
        => /\ (DiscoveryFailed => Falsy(oidc_config))
           /\ (~Falsy(oidc_config) => DocFields \subseteq DOMAIN oidc_config)

\* C7: after a failed discovery no exception has left startup_event, the
\* server is serving and oidc_config is empty.  Stated for the failures
\* startup_event itself tells: a request or parse that raised, or a
\* document without jwks_uri.
C7_StartupSurvivesDiscoveryFailure ==
    (phase # "boot"
        /\ (discovery.kind = "exc" \/ "jwks_uri" \notin DOMAIN discovery.doc))
        => (startupExc = "none" /\ phase = "serving" /\ Falsy(oidc_config))

SuccessQuery == ParseQsl(UrlQuery(resp.url))

\* C9: the success page has status 200 and a URI vscode://<id>/auth?...
\* whose parsed query gives every field of the token response its value
\* and gives `state` the request's state.  Stated for complete metadata,
\* and read in the claim's favour where the query names `state` twice:
\* the last value counts for the request's state, any value for a field.
C9_SuccessUriRoundTrip ==
    (CompleteMetadata /\ resp.kind = "success_page")
        => /\ resp.status = 200
           /\ UrlBase(resp.url)
                = <<"vscode", ":", "/", "/">> \o VSCODE_EXTENSION_ID \o <<"/", "auth">>
           /\ LET vs == ValuesOf(SuccessQuery, <<"state">>)
              IN  vs # <<>> /\ vs[Len(vs)] = req.state
           /\ \A i \in 1..Len(token_json) :
                token_json[i][2] \in Range(ValuesOf(SuccessQuery, token_json[i][1]))

\* C10: with oidc_config populated, a /login with a non-empty state is
\* answered by a redirect to the authorization endpoint whose parsed query
\* is exactly client_id, response_type=code, scope, redirect_uri and the
\* caller's state.
C10_LoginRedirect ==
    (pc = "done" /\ req.route = "/login" /\ ~Falsy(oidc_config)
        /\ req.state \notin {NoneV, <<>>})
        => /\ resp.kind = "redirect"
           /\ "authorization_endpoint" \in DOMAIN oidc_config
           /\ UrlBase(resp.url) = oidc_config["authorization_endpoint"]
           /\ ParseQsl(UrlQuery(resp.url)) = LoginParams(req.state)

\* How often an outbound call of a kind was made for the request in flight.
Count(q, c) == Cardinality({i \in 1..Len(q) : q[i] = c})

\* C11: for one callback request the token endpoint is contacted at most
\* once and the key is resolved at most once; once an exception is raised
\* in the handler the request is over, answered with that failure, and no
\* step adds an outbound call to it.
C11_NoRetry ==
    /\ [](Count(calls, "token_post") <= 1 /\ Count(calls, "jwks_fetch") <= 1)
    /\ [](raised # NoRaise => (pc = "done" /\ resp = OnException(raised.exc)))
    /\ [][raised # NoRaise => (calls' = calls \/ calls' = <<>>)]_vars

\* A token that failed validation after both calls were made, once each.
C11_Witness ==
    /\ pc = "done" /\ Callback /\ raised.at = "decode"
    /\ calls = <<"token_post", "jwks_fetch">>

\* C12: wherever a request handler can run, a non-empty oidc_config comes
\* with jwks_client set; no step after startup writes either of them; and
\* no callback finds jwks_client missing after the 'not configured' check.
C12_PopulatedTogether ==
    /\ []((phase = "serving" /\ ~Falsy(oidc_config)) => jwks_client = "client")
    /\ [](raised.at # "jwks_client")
    /\ [][(oidc_config' # oidc_config \/ jwks_client' # jwks_client)
            => (phase = "boot" /\ phase' # "boot")]_vars

\* A callback past the 'not configured' check, using the key resolver.
C12_Witness ==
    /\ phase = "serving" /\ ~Falsy(oidc_config) /\ jwks_client = "client"
    /\ Callback /\ pc = "await_key"
    /\ calls = <<"token_post", "jwks_fetch">>

====
